---- MODULE Spec2Model ----
(***************************************************************************)
(* The version 1 fetch stream of packfile/client (fetch_v1.go): the ref    *)
(* advertisement reader (newFetchV1, listRefs, Close) and the want/have    *)
(* negotiation (negotiate).                                                *)
(* The commit codec of object (commit.go): MarshalText, UnmarshalText and   *)
(* ParseCommit.                                                            *)
(*                                                                         *)
(* Bytes are modelled as one-character strings and byte slices as          *)
(* sequences of them, so that every parse below works on the wire text.    *)
(* A transport body is a sequence of pkt-line frames.                      *)
(***************************************************************************)
EXTENDS Integers, Sequences, FiniteSets, TLC

\* ------------------------------------------------------------------ bytes

LF == "\n"
SP == " "
NUL == "NUL"

HexDigits == <<"0", "1", "2", "3", "4", "5", "6", "7", "8", "9", "a", "b", "c", "d", "e", "f">>

IsHexDigit(c) == \E i \in 1..16 : HexDigits[i] = c

HexVal(c) == (CHOOSE i \in 1..16 : HexDigits[i] = c) - 1

\* bytes.HasPrefix / strings.HasPrefix
HasPrefix(s, p) == Len(p) <= Len(s) /\ \A i \in 1..Len(p) : s[i] = p[i]

\* bytes.IndexByte, 0-based as in Go, -1 when absent
RECURSIVE IndexFrom(_, _, _)
IndexFrom(s, c, i) ==
    IF i > Len(s) THEN -1 ELSE IF s[i] = c THEN i - 1 ELSE IndexFrom(s, c, i + 1)

IndexByte(s, c) == IndexFrom(s, c, 1)

\* s[from:] with a 0-based Go index
SliceFrom(s, from) == SubSeq(s, from + 1, Len(s))

\* s[:to] with a 0-based Go index
SliceTo(s, to) == SubSeq(s, 1, to)

\* bytes.Fields: the maximal runs of non-whitespace bytes, in order
IsSpace(c) == c \in {SP, LF, "\t", "\r"}

FieldStarts(s) == {i \in 1..Len(s) : ~IsSpace(s[i]) /\ (i = 1 \/ IsSpace(s[i - 1]))}

FieldEnds(s) == {j \in 1..Len(s) : ~IsSpace(s[j]) /\ (j = Len(s) \/ IsSpace(s[j + 1]))}

MinOf(S) == CHOOSE x \in S : \A y \in S : x <= y

RECURSIVE FieldsFrom(_, _, _)
FieldsFrom(s, starts, ends) ==
    IF starts = {} THEN <<>>
    ELSE <<SubSeq(s, MinOf(starts), MinOf(ends))>>
         \o FieldsFrom(s, starts \ {MinOf(starts)}, ends \ {MinOf(ends)})

Fields(s) == FieldsFrom(s, FieldStarts(s), FieldEnds(s))

RECURSIVE Join(_, _)
Join(parts, sep) ==
    IF Len(parts) = 0 THEN <<>>
    ELSE IF Len(parts) = 1 THEN parts[1]
    ELSE parts[1] \o sep \o Join(Tail(parts), sep)

\* ------------------------------------------------------------ object ids

\* len(githash.SHA1{}): a SHA-1 is 20 bytes
SHA1Size == 20

\* hex.EncodedLen(n)
HexEncodedLen(n) == 2 * n

\* githash.SHA1.String: lowercase hex of the 20 bytes
SHA1String(id) ==
    [i \in 1..HexEncodedLen(SHA1Size) |->
        IF i % 2 = 1 THEN HexDigits[(id[(i + 1) \div 2] \div 16) + 1]
        ELSE HexDigits[(id[i \div 2] % 16) + 1]]

\* githash.SHA1.UnmarshalText / githash.ParseSHA1: 40 hex digits or an error
SHA1TextOk(text) ==
    /\ Len(text) = HexEncodedLen(SHA1Size)
    /\ \A i \in 1..Len(text) : IsHexDigit(text[i])

SHA1FromText(text) ==
    [i \in 1..SHA1Size |-> 16 * HexVal(text[2 * i - 1]) + HexVal(text[2 * i])]

ZeroSHA1 == [i \in 1..SHA1Size |-> 0]

\* ------------------------------------------------------- pkt-line reader

\* A body is a sequence of frames: a data frame with its payload, a flush
\* frame, or a frame the reader cannot decode (bad length, truncation, or a
\* failed read of the underlying stream).
DataFrame(payload) == [type |-> "Data", data |-> payload]
FlushFrame == [type |-> "Flush", data |-> <<>>]
BadFrame == [type |-> "Bad", data |-> <<>>]

\* pktline.NewReader: no frame read yet
NewReader == [pos |-> 0, err |-> ""]

\* pktline.Reader.Next: true iff another frame was decoded
NextOk(body, rd) == rd.err = "" /\ rd.pos < Len(body) /\ body[rd.pos + 1].type # "Bad"

ReaderNext(body, rd) ==
    IF rd.err # "" THEN rd
    ELSE IF rd.pos >= Len(body) THEN [pos |-> Len(body) + 1, err |-> ""]
    ELSE IF body[rd.pos + 1].type = "Bad" THEN [pos |-> rd.pos + 1, err |-> "framing"]
    ELSE [pos |-> rd.pos + 1, err |-> ""]

\* pktline.Reader.Err: the error that stopped Next, nil at the end of the stream
ReaderErr(rd) == rd.err

\* pktline.Reader.Type of the current frame
ReaderType(body, rd) == body[rd.pos].type

trimLF(line) ==
    IF Len(line) > 0 /\ line[Len(line)] = LF THEN SubSeq(line, 1, Len(line) - 1) ELSE line

\* pktline.Reader.Text: the current data frame without its trailing LF, or an error
ReaderTextErr(body, rd) ==
    IF rd.err # "" THEN rd.err
    ELSE IF rd.pos < 1 \/ rd.pos > Len(body) THEN "no packet"
    ELSE IF body[rd.pos].type # "Data" THEN "unexpected packet"
    ELSE ""

ReaderText(body, rd) == trimLF(body[rd.pos].data)

\* ------------------------------------------------------- capability list

multiAckCap == <<"m", "u", "l", "t", "i", "_", "a", "c", "k">>
ofsDeltaCap == <<"o", "f", "s", "-", "d", "e", "l", "t", "a">>
noProgressCap == <<"n", "o", "-", "p", "r", "o", "g", "r", "e", "s", "s">>
sideBandCap == <<"s", "i", "d", "e", "-", "b", "a", "n", "d">>
sideBand64KCap == <<"s", "i", "d", "e", "-", "b", "a", "n", "d", "-", "6", "4", "k">>
symrefCap == <<"s", "y", "m", "r", "e", "f">>

\* A capabilityList: the key/value map and the symref map lifted out of it.
EmptyMap == [x \in {} |-> <<>>]
NilCaps == [kv |-> EmptyMap, symrefs |-> EmptyMap]

MapPut(m, k, v) == [x \in (DOMAIN m) \cup {k} |-> IF x = k THEN v ELSE m[x]]

CapKeyChars ==
    {"a", "b", "c", "d", "e", "f", "g", "h", "i", "j", "k", "l", "m", "n", "o", "p", "q",
     "r", "s", "t", "u", "v", "w", "x", "y", "z", "A", "B", "C", "D", "E", "F", "G", "H",
     "I", "J", "K", "L", "M", "N", "O", "P", "Q", "R", "S", "T", "U", "V", "W", "X", "Y",
     "Z", "0", "1", "2", "3", "4", "5", "6", "7", "8", "9", "_", "-"}

\* parseCapability: key or key=value
CapKey(tok) == IF IndexByte(tok, "=") = -1 THEN tok ELSE SliceTo(tok, IndexByte(tok, "="))
CapValue(tok) == IF IndexByte(tok, "=") = -1 THEN <<>> ELSE SliceFrom(tok, IndexByte(tok, "=") + 1)
CapErr(tok) ==
    IF Len(CapKey(tok)) = 0 \/ \E i \in 1..Len(CapKey(tok)) : CapKey(tok)[i] \notin CapKeyChars
    THEN "invalid capability" ELSE ""

\* capabilityList.addSymref: "<from>:<to>" adds from -> to
addSymref(caps, v) ==
    IF IndexByte(v, ":") = -1 THEN caps
    ELSE [caps EXCEPT !.symrefs =
            MapPut(caps.symrefs, SliceTo(v, IndexByte(v, ":")), SliceFrom(v, IndexByte(v, ":") + 1))]

\* capabilityList.symrefs()[name], the zero Ref when absent
SymrefLookup(caps, name) == IF name \in DOMAIN caps.symrefs THEN caps.symrefs[name] ELSE <<>>

\* capabilityList.supports
supports(caps, k) == k \in DOMAIN caps.kv

\* capabilityList.intersect: keep the keys that the other list has too
intersect(useCaps, other) ==
    [useCaps EXCEPT !.kv = [k \in (DOMAIN useCaps.kv) \cap (DOMAIN other.kv) |-> useCaps.kv[k]]]

\* capabilityList.String: the keys (key=value when there is a value) separated by spaces
CapOrder == <<multiAckCap, noProgressCap, ofsDeltaCap, sideBandCap, sideBand64KCap>>

CapToken(caps, k) == IF Len(caps.kv[k]) = 0 THEN k ELSE k \o <<"=">> \o caps.kv[k]

CapsString(caps) ==
    Join(SelectSeq([i \in 1..Len(CapOrder) |->
                        IF CapOrder[i] \in DOMAIN caps.kv THEN CapToken(caps, CapOrder[i]) ELSE <<>>],
                   LAMBDA t : Len(t) > 0),
         <<SP>>)

\* ------------------------------------------------------ ref advertisement

versionLine == <<"v", "e", "r", "s", "i", "o", "n", " ", "1">>
noRefsName == <<"c", "a", "p", "a", "b", "i", "l", "i", "t", "i", "e", "s", "^", "{", "}">>
lockSuffix == <<".", "l", "o", "c", "k">>

\* githash.Ref.IsValid: the ref-name rules of the advertisement
HasSuffix(s, p) == Len(p) <= Len(s) /\ \A i \in 1..Len(p) : s[Len(s) - Len(p) + i] = p[i]

RefForbiddenChars == {SP, NUL, LF, "\t", "\r", "~", "^", ":", "?", "*", "[", "\\"}

RefIsValid(name) ==
    /\ Len(name) > 0
    /\ name[1] # "/"
    /\ name[Len(name)] # "/"
    /\ \A i \in 1..Len(name) : name[i] \notin RefForbiddenChars
    /\ \A i \in 1..(Len(name) - 1) : ~(name[i] = "." /\ name[i + 1] = ".")
    /\ ~HasSuffix(name, lockSuffix)

NoRef == [ObjectID |-> ZeroSHA1, Name |-> <<>>, SymrefTarget |-> <<>>]

RECURSIVE FirstCapErr(_, _)
FirstCapErr(toks, i) ==
    IF i > Len(toks) THEN ""
    ELSE IF CapErr(toks[i]) # "" THEN "first ref: " \o CapErr(toks[i])
    ELSE FirstCapErr(toks, i + 1)

RECURSIVE AddCaps(_, _, _)
AddCaps(caps, toks, i) ==
    IF i > Len(toks) THEN caps
    ELSE IF CapKey(toks[i]) = symrefCap THEN AddCaps(addSymref(caps, CapValue(toks[i])), toks, i + 1)
    ELSE AddCaps([caps EXCEPT !.kv = MapPut(caps.kv, CapKey(toks[i]), CapValue(toks[i]))], toks, i + 1)

FirstRefResult(hasRef, ref, caps, err) == [hasRef |-> hasRef, ref |-> ref, caps |-> caps, err |-> err]

parseFirstRefV1(line) ==
    LET refEnd == IndexByte(line, NUL)
        idEnd == IndexByte(SliceTo(line, refEnd), SP)
        idText == SliceTo(line, idEnd)
        refName == SubSeq(line, idEnd + 2, refEnd)
        toks == Fields(SliceFrom(line, refEnd + 1))
        caps == AddCaps(NilCaps, toks, 1)
    IN  IF refEnd = -1 THEN FirstRefResult(FALSE, NoRef, NilCaps, "first ref: missing nul")
        ELSE IF idEnd = -1 THEN FirstRefResult(FALSE, NoRef, NilCaps, "first ref: missing space")
        ELSE IF ~SHA1TextOk(idText) THEN FirstRefResult(FALSE, NoRef, NilCaps, "first ref: bad id")
        ELSE IF FirstCapErr(toks, 1) # "" THEN FirstRefResult(FALSE, NoRef, NilCaps, FirstCapErr(toks, 1))
        ELSE IF refName = noRefsName
             THEN IF SHA1FromText(idText) # ZeroSHA1
                  THEN FirstRefResult(FALSE, NoRef, NilCaps,
                                      "first ref: non-zero ID passed with no-refs response")
                  ELSE FirstRefResult(FALSE, NoRef, caps, "")
        ELSE IF ~RefIsValid(refName) THEN FirstRefResult(FALSE, NoRef, NilCaps, "first ref: invalid name")
        ELSE FirstRefResult(TRUE,
                            [ObjectID |-> SHA1FromText(idText), Name |-> refName,
                             SymrefTarget |-> SymrefLookup(caps, refName)],
                            caps, "")

\* readFirstRefV1: the result of parseFirstRefV1 and the reader as it leaves it
ReadFirstResult(p, rd) == [hasRef |-> p.hasRef, ref |-> p.ref, caps |-> p.caps, err |-> p.err, rd |-> rd]

ReadFirstFail(msg, rd) == ReadFirstResult(FirstRefResult(FALSE, NoRef, NilCaps, msg), rd)

\* the frame after a no-refs first line is not looked at.
readFirstRefAtAnyNextFrame(body, rd) ==
    IF ReaderTextErr(body, rd) # "" THEN ReadFirstFail("read refs: first ref: " \o ReaderTextErr(body, rd), rd)
    ELSE LET p == parseFirstRefV1(ReaderText(body, rd))
         IN  IF p.err # "" THEN ReadFirstFail("read refs: " \o p.err, rd)
             ELSE ReadFirstResult(p, rd)

readFirstRefAt(body, rd) ==
    IF ReaderTextErr(body, rd) # "" THEN ReadFirstFail("read refs: first ref: " \o ReaderTextErr(body, rd), rd)
    ELSE LET p == parseFirstRefV1(ReaderText(body, rd))
             rd2 == ReaderNext(body, rd)
         IN  IF p.err # "" THEN ReadFirstFail("read refs: " \o p.err, rd)
             ELSE IF p.hasRef THEN ReadFirstResult(p, rd)
             ELSE IF ~NextOk(body, rd) THEN ReadFirstFail("read refs: " \o ReaderErr(rd2), rd2)
             ELSE IF ReaderType(body, rd2) # "Flush"
                  THEN ReadFirstFail("read refs: expected flush after no-refs", rd2)
             ELSE ReadFirstResult(p, rd2)

readFirstRefV1(body, rd) ==
    IF ReaderTextErr(body, rd) # "" THEN ReadFirstFail("read refs: first ref: " \o ReaderTextErr(body, rd), rd)
    ELSE IF ReaderText(body, rd) = versionLine THEN readFirstRefAt(body, ReaderNext(body, rd))
    ELSE readFirstRefAt(body, rd)

OtherRefResult(ref, err) == [ref |-> ref, err |-> err]

\* the name on the line is taken as it is.
parseOtherRefV1AnyName(line0) ==
    LET line == trimLF(line0)
        idEnd == IndexByte(line, SP)
        refName == SliceFrom(line, idEnd + 1)
        idText == SliceTo(line, idEnd)
    IN  IF idEnd = -1 THEN OtherRefResult(NoRef, "ref: missing space")
        ELSE IF ~SHA1TextOk(idText) THEN OtherRefResult(NoRef, "ref: bad id")
        ELSE OtherRefResult([ObjectID |-> SHA1FromText(idText), Name |-> refName, SymrefTarget |-> <<>>], "")

parseOtherRefV1(line0) ==
    LET line == trimLF(line0)
        idEnd == IndexByte(line, SP)
        refName == SliceFrom(line, idEnd + 1)
        idText == SliceTo(line, idEnd)
    IN  IF idEnd = -1 THEN OtherRefResult(NoRef, "ref: missing space")
        ELSE IF ~RefIsValid(refName) THEN OtherRefResult(NoRef, "ref: invalid name")
        ELSE IF ~SHA1TextOk(idText) THEN OtherRefResult(NoRef, "ref: bad id")
        ELSE OtherRefResult([ObjectID |-> SHA1FromText(idText), Name |-> refName, SymrefTarget |-> <<>>], "")

ReadOthersResult(rs, err, rd) == [refs |-> rs, err |-> err, rd |-> rd]

\* the ref keeps what its own line gave it.
withSymrefTargetOfLine(ref, capsList) == ref

\* line 181: ref.SymrefTarget = symrefs[ref.Name]
withSymrefTarget(ref, capsList) == [ref EXCEPT !.SymrefTarget = SymrefLookup(capsList, ref.Name)]

\* reading stops after the next frame.
readOtherRefsV1OneFrame(rs, capsList, body, rd) ==
    LET rd2 == ReaderNext(body, rd)
    IN  IF NextOk(body, rd) /\ ReaderType(body, rd2) # "Flush"
        THEN IF ReaderTextErr(body, rd2) # ""
             THEN ReadOthersResult(<<>>, "read refs: " \o ReaderTextErr(body, rd2), rd2)
             ELSE LET p == parseOtherRefV1(ReaderText(body, rd2))
                  IN  IF p.err # "" THEN ReadOthersResult(<<>>, "read refs: " \o p.err, rd2)
                      ELSE ReadOthersResult(Append(rs, withSymrefTarget(p.ref, capsList)), "", rd2)
        ELSE IF ReaderErr(rd2) # "" THEN ReadOthersResult(rs, "read refs: " \o ReaderErr(rd2), rd2)
        ELSE ReadOthersResult(rs, "", rd2)

RECURSIVE readOtherRefsV1(_, _, _, _)
readOtherRefsV1(rs, capsList, body, rd) ==
    LET rd2 == ReaderNext(body, rd)
    IN  IF NextOk(body, rd) /\ ReaderType(body, rd2) # "Flush"
        THEN IF ReaderTextErr(body, rd2) # ""
             THEN ReadOthersResult(<<>>, "read refs: " \o ReaderTextErr(body, rd2), rd2)
             ELSE LET p == parseOtherRefV1(ReaderText(body, rd2))
                  IN  IF p.err # "" THEN ReadOthersResult(<<>>, "read refs: " \o p.err, rd2)
                      ELSE readOtherRefsV1(
                               Append(rs, withSymrefTarget(p.ref, capsList)),
                               capsList, body, rd2)
        ELSE IF ReaderErr(rd2) # "" THEN ReadOthersResult(rs, "read refs: " \o ReaderErr(rd2), rd2)
        ELSE ReadOthersResult(rs, "", rd2)

\* listRefs lines 77-89: the prefix filter over f.refs
RECURSIVE MatchesOf(_, _, _)
MatchesOf(r, prefixes, j) ==
    IF j > Len(prefixes) THEN <<>>
    ELSE (IF HasPrefix(r.Name, prefixes[j]) THEN <<r>> ELSE <<>>) \o MatchesOf(r, prefixes, j + 1)

RECURSIVE FilterFrom(_, _, _)
FilterFrom(rs, prefixes, i) ==
    IF i > Len(rs) THEN <<>>
    ELSE MatchesOf(rs[i], prefixes, 1) \o FilterFrom(rs, prefixes, i + 1)

\* a ref is kept only when every prefix matches it.
filterRefsEveryPrefix(rs, prefixes) ==
    SelectSeq(rs, LAMBDA r : \A j \in 1..Len(prefixes) : HasPrefix(r.Name, prefixes[j]))

\* only the first prefix is looked at.
filterRefsFirstPrefix(rs, prefixes) ==
    IF Len(prefixes) = 0 THEN rs ELSE FilterFrom(rs, SubSeq(prefixes, 1, 1), 1)

filterRefs(rs, prefixes) == IF Len(prefixes) = 0 THEN rs ELSE FilterFrom(rs, prefixes, 1)

\* ------------------------------------------------------------- negotiate

ackPrefix == <<"A", "C", "K", " ">>
nak == <<"N", "A", "K">>
continueStatus == <<"c", "o", "n", "t", "i", "n", "u", "e">>
wantPrefix == <<"w", "a", "n", "t", " ">>
havePrefix == <<"h", "a", "v", "e", " ">>
doneLine == <<"d", "o", "n", "e">>
v1ExtraParams == <<"v", "e", "r", "s", "i", "o", "n", "=", "1">>

\* pktline.AppendString / pktline.AppendFlush: one more frame at the end of the buffer
AppendString(buf, str) == Append(buf, DataFrame(str))
AppendFlush(buf) == Append(buf, FlushFrame)

\* no-progress is asked for whether or not a progress sink is attached.
wantedCapsAlwaysNoProgress(req) ==
    [kv |-> [k \in {multiAckCap, ofsDeltaCap, noProgressCap} |-> <<>>], symrefs |-> EmptyMap]

\* lines 212-219: the capabilities the client would like, cut down to the server's
wantedCaps(req) ==
    [kv |-> [k \in {multiAckCap, ofsDeltaCap} \cup (IF req.Progress THEN {} ELSE {noProgressCap}) |-> <<>>],
     symrefs |-> EmptyMap]

\* side-band is taken for granted when side-band-64k is not offered.
sideBandChoiceAssumed(serverCaps) ==
    IF supports(serverCaps, sideBand64KCap) THEN <<sideBand64KCap>> ELSE <<sideBandCap>>

\* lines 222-230: exactly one side-band variant, side-band-64k first
sideBandChoice(serverCaps) ==
    IF supports(serverCaps, sideBand64KCap) THEN <<sideBand64KCap>>
    ELSE IF supports(serverCaps, sideBandCap) THEN <<sideBandCap>>
    ELSE <<>>

selectCaps(serverCaps, req) ==
    LET useCaps == intersect(wantedCaps(req), serverCaps)
    IN  [useCaps EXCEPT !.kv = MapPut(useCaps.kv, sideBandChoice(serverCaps)[1], <<>>)]

\* lines 232-245: the command buffer
RECURSIVE appendWants(_, _, _)
appendWants(buf, want, i) ==
    IF i > Len(want) THEN buf
    ELSE appendWants(AppendString(buf, wantPrefix \o SHA1String(want[i]) \o <<LF>>), want, i + 1)

RECURSIVE appendHaves(_, _, _)
appendHaves(buf, have, i) ==
    IF i > Len(have) THEN buf
    ELSE appendHaves(AppendString(buf, havePrefix \o SHA1String(have[i]) \o <<LF>>), have, i + 1)

\* The terminator is chosen the wrong way round.
buildCommandBufSwapped(useCaps, req) ==
    LET b1 == AppendString(<<>>, wantPrefix \o SHA1String(req.Want[1]) \o <<SP>> \o CapsString(useCaps) \o <<LF>>)
        b2 == appendWants(b1, req.Want, 2)
        b3 == AppendFlush(b2)
        b4 == appendHaves(b3, req.Have, 1)
    IN  IF req.HaveMore THEN AppendString(b4, doneLine) ELSE AppendFlush(b4)

buildCommandBuf(useCaps, req) ==
    LET b1 == AppendString(<<>>, wantPrefix \o SHA1String(req.Want[1]) \o <<SP>> \o CapsString(useCaps) \o <<LF>>)
        b2 == appendWants(b1, req.Want, 2)
        b3 == AppendFlush(b2)
        b4 == appendHaves(b3, req.Have, 1)
    IN  IF ~req.HaveMore THEN AppendString(b4, doneLine) ELSE AppendFlush(b4)

\* lines 261-293: the ack loop; found is foundCommonBase, rd the reader as the loop leaves it
AckResult(err, acks, found, rd) == [err |-> err, acks |-> acks, found |-> found, rd |-> rd]

\* lines 279-287: what the text after the id means
ackStatus(status) ==
    IF Len(status) = 0 THEN "base"
    ELSE IF status = continueStatus THEN "continue"
    ELSE "unknown"

\* Only the latest ack is kept.
recordAckLatest(acks, id) == {id}

\* line 278: result.Acks[id] = true
recordAck(acks, id) == acks \cup {id}

RECURSIVE ackLoop(_, _, _)
ackLoop(body, rd, acks) ==
    LET rd2 == ReaderNext(body, rd)
    IN  IF ~NextOk(body, rd) THEN AckResult("", acks, FALSE, rd2)
        ELSE IF ReaderTextErr(body, rd2) # ""
             THEN AckResult("parse response: " \o ReaderTextErr(body, rd2), acks, FALSE, rd2)
        ELSE LET line == ReaderText(body, rd2)
                 rest == SliceFrom(line, Len(ackPrefix))
                 idEnd == HexEncodedLen(SHA1Size)
             IN  IF HasPrefix(line, ackPrefix)
                 THEN IF idEnd > Len(rest)
                      THEN AckResult("parse response: acknowledgements: ack too short", acks, FALSE, rd2)
                      ELSE IF ~SHA1TextOk(SliceTo(rest, idEnd))
                      THEN AckResult("parse response: acknowledgements: bad id", acks, FALSE, rd2)
                      ELSE LET acks2 == recordAck(acks, SHA1FromText(SliceTo(rest, idEnd)))
                               st == ackStatus(SliceFrom(rest, idEnd))
                           IN  IF st = "base" THEN AckResult("", acks2, TRUE, rd2)
                               ELSE IF st = "continue" THEN ackLoop(body, rd2, acks2)
                               ELSE AckResult("parse response: acknowledgements: unknown status",
                                              acks2, FALSE, rd2)
                 ELSE IF line = nak THEN AckResult("", acks, FALSE, rd2)
                 ELSE AckResult("parse response: acknowledgements: unrecognized directive",
                                acks, FALSE, rd2)

\* lines 250-254: the deferred close tests the err variable of line 246; every later
\* err is a new variable of an inner scope and no return statement assigns it
deferredCloses(uploadErr, returnedErr) == IF uploadErr # "" THEN 1 ELSE 0

\* A packfile only when a common base was found.
hasPackfileOnlyOnBase(foundCommonBase, req) == foundCommonBase

\* line 297: whether the response carries a packfile
hasPackfile(foundCommonBase, req) == foundCommonBase \/ ~req.HaveMore

\* What negotiate hands back and what the transport saw of it.
\*   err, hasResponse, acks, packfile, packCloser: the returned (*FetchResponse, error)
\*   uploadCalls, extraParams, commandBuf: the uploadPack calls made and the request posted
\*   respCloses, respPos: Close calls on the response body, frames the ack loop consumed
NegotiateResult(err, hasResponse, acks, packfile, uploadCalls, commandBuf, respCloses, respPos) ==
    [err |-> err, hasResponse |-> hasResponse, acks |-> acks, packfile |-> packfile,
     packCloser |-> IF packfile THEN "resp" ELSE "none",
     uploadCalls |-> uploadCalls, commandBuf |-> commandBuf,
     extraParams |-> IF uploadCalls > 0 THEN v1ExtraParams ELSE <<>>,
     respCloses |-> respCloses, respPos |-> respPos]

\* fetchV1.negotiate for a request and the transport's answer to it: out.err is the
\* error of uploadPack ("" for none) and out.body the response body
negotiate(serverCaps, req, out) ==
    IF sideBandChoice(serverCaps) = <<>>
    THEN NegotiateResult("remote does not support side-band", FALSE, {}, FALSE, 0, <<>>, 0, 0)
    ELSE LET commandBuf == buildCommandBuf(selectCaps(serverCaps, req), req)
         IN  IF out.err # "" THEN NegotiateResult(out.err, FALSE, {}, FALSE, 1, commandBuf, 0, 0)
             ELSE LET a == ackLoop(out.body, NewReader, {})
                      err == IF a.err # "" THEN a.err
                             ELSE IF ReaderErr(a.rd) # "" THEN "parse response: " \o ReaderErr(a.rd)
                             ELSE ""
                  IN  IF err # ""
                      THEN NegotiateResult(err, FALSE, {}, FALSE, 1, commandBuf,
                                           deferredCloses(out.err, err), a.rd.pos)
                      ELSE NegotiateResult("", TRUE, a.acks, hasPackfile(a.found, req), 1, commandBuf,
                                           deferredCloses(out.err, err), a.rd.pos)

\* --------------------------------------------------------- commit objects
\* object/commit.go: Commit.MarshalText and Commit.UnmarshalText.

\* bytes.LastIndexByte, 0-based, -1 when absent
RECURSIVE LastIndexFrom(_, _, _)
LastIndexFrom(s, c, i) ==
    IF i = 0 THEN -1 ELSE IF s[i] = c THEN i - 1 ELSE LastIndexFrom(s, c, i - 1)

LastIndexByte(s, c) == LastIndexFrom(s, c, Len(s))

DecDigits == <<"0", "1", "2", "3", "4", "5", "6", "7", "8", "9">>
IsDecDigit(c) == \E i \in 1..10 : DecDigits[i] = c
DecVal(c) == (CHOOSE i \in 1..10 : DecDigits[i] = c) - 1

\* An int64 is held as its sign and its decimal digits without leading zeros:
\* the timestamps of a commit are parsed, kept and printed, never computed with.
Int64(neg, digits) == [neg |-> neg, digits |-> digits]

RECURSIVE TrimZeros(_)
TrimZeros(ds) == IF Len(ds) > 1 /\ ds[1] = "0" THEN TrimZeros(Tail(ds)) ELSE ds

\* a < b for digit strings without leading zeros
RECURSIVE DigitsLess(_, _)
DigitsLess(a, b) ==
    IF Len(a) # Len(b) THEN Len(a) < Len(b)
    ELSE IF Len(a) = 0 THEN FALSE
    ELSE IF a[1] # b[1] THEN DecVal(a[1]) < DecVal(b[1])
    ELSE DigitsLess(Tail(a), Tail(b))

\* 1 << 63
Int64Cutoff ==
    <<"9", "2", "2", "3", "3", "7", "2", "0", "3", "6", "8", "5", "4", "7", "7", "5", "8", "0", "8">>

\* strconv.ParseInt(s, 10, 64)
ParseIntErr(s) ==
    LET neg == Len(s) > 0 /\ s[1] = "-"
        ds == IF Len(s) > 0 /\ s[1] \in {"+", "-"} THEN Tail(s) ELSE s
    IN  IF Len(ds) = 0 \/ \E i \in 1..Len(ds) : ~IsDecDigit(ds[i]) THEN "invalid syntax"
        ELSE IF neg /\ DigitsLess(Int64Cutoff, TrimZeros(ds)) THEN "value out of range"
        ELSE IF ~neg /\ ~DigitsLess(TrimZeros(ds), Int64Cutoff) THEN "value out of range"
        ELSE ""

ParseInt(s) ==
    LET ds == TrimZeros(IF s[1] \in {"+", "-"} THEN Tail(s) ELSE s)
    IN  Int64(s[1] = "-" /\ ds # <<"0">>, ds)

\* fmt's %d of an int64
FormatInt(n) == (IF n.neg THEN <<"-">> ELSE <<>>) \o n.digits

\* time.FixedZone(name, offset): offset in seconds east of UTC
FixedZone(name, offset) == [name |-> name, offset |-> offset]

UTC == FixedZone(<<"U", "T", "C">>, 0)

\* time.Unix(sec, 0).In(loc)
TimeIn(sec, loc) == [sec |-> sec, loc |-> loc]

\* time.Time{}: January 1, year 1, 00:00:00 UTC
ZeroTime == TimeIn(Int64(TRUE, <<"6", "2", "1", "3", "5", "5", "9", "6", "8", "0", "0">>), UTC)

\* Go's integer division, which truncates toward zero
Quo(a, b) == IF a >= 0 THEN a \div b ELSE -((-a) \div b)

\* time's appendInt(x, 2) for x >= 0: at least two digits
RECURSIVE DecString(_)
DecString(x) == IF x < 10 THEN <<DecDigits[x + 1]>> ELSE DecString(x \div 10) \o <<DecDigits[(x % 10) + 1]>>

AppendInt2(x) == IF x < 10 THEN <<"0">> \o DecString(x) ELSE DecString(x)

\* time.Time.Format("-0700"): the zone offset cut to minutes, as sign, hours, minutes
FormatNumTZ(t) ==
    LET zone == Quo(t.loc.offset, 60)
        abs == IF zone < 0 THEN -zone ELSE zone
    IN  <<IF zone < 0 THEN "-" ELSE "+">> \o AppendInt2(abs \div 60) \o AppendInt2(abs % 60)

\* The Commit struct (lines 33-57); Commit{} is the zero commit.
Commit(tree, parents, author, authorTime, committer, commitTime, sig, message) ==
    [Tree |-> tree, Parents |-> parents, Author |-> author, AuthorTime |-> authorTime,
     Committer |-> committer, CommitTime |-> commitTime, GPGSignature |-> sig, Message |-> message]

ZeroCommit == Commit(ZeroSHA1, <<>>, <<>>, ZeroTime, <<>>, ZeroTime, <<>>, <<>>)

treePrefix == <<"t", "r", "e", "e", " ">>
parentPrefix == <<"p", "a", "r", "e", "n", "t", " ">>
authorPrefix == <<"a", "u", "t", "h", "o", "r", " ">>
committerPrefix == <<"c", "o", "m", "m", "i", "t", "t", "e", "r", " ">>
gpgSignaturePrefix == <<"g", "p", "g", "s", "i", "g">>

\* consumeString: the text after s when src starts with s
Consumed(tail, ok) == [tail |-> tail, ok |-> ok]

consumeString(src, s) ==
    IF Len(src) < Len(s) THEN Consumed(src, FALSE)
    ELSE IF \E i \in 1..Len(s) : src[i] # s[i] THEN Consumed(src, FALSE)
    ELSE Consumed(SliceFrom(src, Len(s)), TRUE)

\* encoding/hex's reverseHexTable: digits in either case
UpperHexDigits == <<"0", "1", "2", "3", "4", "5", "6", "7", "8", "9", "A", "B", "C", "D", "E", "F">>
IsHexChar(c) == IsHexDigit(c) \/ \E i \in 1..16 : UpperHexDigits[i] = c
FromHexChar(c) == IF IsHexDigit(c) THEN HexVal(c) ELSE (CHOOSE i \in 1..16 : UpperHexDigits[i] = c) - 1

\* hex.Decode(dst, src) for len(src) = 2 * len(dst): the bytes before the first
\* invalid pair are written into dst
HexPairsOk(src) ==
    IF \E i \in 1..(Len(src) \div 2) : ~IsHexChar(src[2 * i - 1]) \/ ~IsHexChar(src[2 * i])
    THEN (CHOOSE i \in 1..(Len(src) \div 2) :
             /\ ~IsHexChar(src[2 * i - 1]) \/ ~IsHexChar(src[2 * i])
             /\ \A j \in 1..(i - 1) : IsHexChar(src[2 * j - 1]) /\ IsHexChar(src[2 * j])) - 1
    ELSE Len(src) \div 2

hexDecode(dst, src) ==
    LET n == HexPairsOk(src)
    IN  [dst |-> [i \in 1..Len(dst) |->
                     IF i <= n THEN 16 * FromHexChar(src[2 * i - 1]) + FromHexChar(src[2 * i])
                     ELSE dst[i]],
         err |-> IF n < Len(src) \div 2 THEN "invalid byte" ELSE ""]

\* consumeHex
HexConsumed(dst, tail, err) == [dst |-> dst, tail |-> tail, err |-> err]

consumeHex(dst, src) ==
    LET n == HexEncodedLen(Len(dst))
    IN  IF Len(src) < n THEN HexConsumed(dst, src, "unexpected EOF")
        ELSE LET d == hexDecode(dst, SliceTo(src, n))
             IN  IF d.err # "" THEN HexConsumed(d.dst, src, d.err)
                 ELSE HexConsumed(d.dst, SliceFrom(src, n), "")

\* parseTZOffset
TZParsed(loc, err) == [loc |-> loc, err |-> err]

\* the sign of the offset is dropped.
parseTZOffsetUnsigned(src) ==
    IF Len(src) # 5 THEN TZParsed(UTC, "parse UTC offset: wrong length")
    ELSE IF src[1] \notin {"-", "+"} THEN TZParsed(UTC, "parse UTC offset: must start with plus or minus sign")
    ELSE IF \E i \in 2..5 : ~IsDecDigit(src[i]) THEN TZParsed(UTC, "parse UTC offset: must have 4 digits after sign")
    ELSE LET hours == DecVal(src[2]) * 10 + DecVal(src[3])
             minutes == DecVal(src[4]) * 10 + DecVal(src[5])
         IN  TZParsed(FixedZone(src, hours * 60 * 60 + minutes * 60), "")

parseTZOffset(src) ==
    IF Len(src) # 5 THEN TZParsed(UTC, "parse UTC offset: wrong length")
    ELSE IF src[1] \notin {"-", "+"} THEN TZParsed(UTC, "parse UTC offset: must start with plus or minus sign")
    ELSE IF \E i \in 2..5 : ~IsDecDigit(src[i]) THEN TZParsed(UTC, "parse UTC offset: must have 4 digits after sign")
    ELSE LET sign == IF src[1] = "-" THEN -1 ELSE 1
             hours == DecVal(src[2]) * 10 + DecVal(src[3])
             minutes == DecVal(src[4]) * 10 + DecVal(src[5])
         IN  TZParsed(FixedZone(src, (hours * 60 * 60 + minutes * 60) * sign), "")

\* consumeUser
UserConsumed(user, time, tail, err) == [user |-> user, time |-> time, tail |-> tail, err |-> err]

consumeUser(src) ==
    LET eol == IndexByte(src, LF)
        line == SliceTo(src, eol)
        timestampEnd == LastIndexByte(line, SP)
        tzOffsetStart == timestampEnd + 1
        userEnd == LastIndexByte(SliceTo(line, timestampEnd), SP)
        timestampStart == userEnd + 1
        timestampText == SubSeq(line, timestampStart + 1, timestampEnd)
        tz == parseTZOffset(SliceFrom(line, tzOffsetStart))
    IN  IF eol = -1 THEN UserConsumed(<<>>, ZeroTime, src, "unexpected EOF")
        ELSE IF timestampEnd = -1 THEN UserConsumed(<<>>, ZeroTime, src, "invalid format")
        ELSE IF userEnd = -1 THEN UserConsumed(<<>>, ZeroTime, src, "invalid format")
        ELSE IF ParseIntErr(timestampText) # ""
             THEN UserConsumed(<<>>, ZeroTime, src, "parse timestamp: " \o ParseIntErr(timestampText))
        ELSE IF tz.err # "" THEN UserConsumed(<<>>, ZeroTime, src, tz.err)
        ELSE UserConsumed(SliceTo(line, userEnd), TimeIn(ParseInt(timestampText), tz.loc),
                          SliceFrom(src, eol + 1), "")

\* consumeSignature
SigConsumed(sig, tail, err) == [sig |-> sig, tail |-> tail, err |-> err]

\* lines 244-251: the continuation lines, each without its leading space
RECURSIVE consumeSignatureLines(_, _)
consumeSignatureLines(sig, tail) ==
    IF Len(tail) > 0 /\ tail[1] = SP
    THEN LET i == IndexByte(tail, LF)
         IN  IF i = -1 THEN SigConsumed(sig, tail, "parse signature: unexpected EOF")
             ELSE consumeSignatureLines(sig \o SubSeq(tail, 2, i + 1), SliceFrom(tail, i + 1))
    ELSE SigConsumed(sig, tail, "")

consumeSignature(src) ==
    LET i == IndexByte(src, LF)
    IN  IF i = -1 THEN SigConsumed(<<>>, src, "parse signature: unexpected EOF")
        ELSE consumeSignatureLines(SliceTo(src, i + 1), SliceFrom(src, i + 1))

\* Commit.UnmarshalText lines 84-99: the parent lines
ParentsConsumed(parents, tail, err) == [parents |-> parents, tail |-> tail, err |-> err]

RECURSIVE consumeParents(_, _)
consumeParents(parents, data) ==
    LET pre == consumeString(data, parentPrefix)
        p == consumeHex(ZeroSHA1, pre.tail)
        eol == consumeString(p.tail, <<LF>>)
    IN  IF ~pre.ok THEN ParentsConsumed(parents, pre.tail, "")
        ELSE IF p.err # "" THEN ParentsConsumed(parents, p.tail, "parse git commit: parent: " \o p.err)
        ELSE IF ~eol.ok THEN ParentsConsumed(Append(parents, p.dst), eol.tail,
                                             "parse git commit: parent: trailing data")
        ELSE consumeParents(Append(parents, p.dst), eol.tail)

\* Commit.UnmarshalText: the commit as the call leaves it, and the error
Unmarshalled(c, err) == [c |-> c, err |-> err]

\* lines 116-128: the signature, the blank line and the message
unmarshalTail(c, data) ==
    LET pre == consumeString(data, gpgSignaturePrefix \o <<SP>>)
        sig == consumeSignature(pre.tail)
        c1 == IF pre.ok THEN [c EXCEPT !.GPGSignature = sig.sig] ELSE c
        blank == consumeString(IF pre.ok THEN sig.tail ELSE pre.tail, <<LF>>)
    IN  IF pre.ok /\ sig.err # "" THEN Unmarshalled(c1, "parse git commit: gpg signature: " \o sig.err)
        ELSE IF ~blank.ok THEN Unmarshalled(c1, "parse git commit: message: expect blank line after header")
        ELSE Unmarshalled([c1 EXCEPT !.Message = blank.tail], "")

\* lines 100-115: the author and committer lines
unmarshalUsers(c, data) ==
    LET apre == consumeString(data, authorPrefix)
        a == consumeUser(apre.tail)
        c1 == [c EXCEPT !.Author = a.user, !.AuthorTime = a.time]
        cpre == consumeString(a.tail, committerPrefix)
        m == consumeUser(cpre.tail)
        c2 == [c1 EXCEPT !.Committer = m.user, !.CommitTime = m.time]
    IN  IF ~apre.ok THEN Unmarshalled(c, "parse git commit: author: missing line")
        ELSE IF a.err # "" THEN Unmarshalled(c1, "parse git commit: author: " \o a.err)
        ELSE IF ~cpre.ok THEN Unmarshalled(c1, "parse git commit: committer: missing line")
        ELSE IF m.err # "" THEN Unmarshalled(c2, "parse git commit: committer: " \o m.err)
        ELSE unmarshalTail(c2, m.tail)

UnmarshalText(c, data) ==
    LET pre == consumeString(data, treePrefix)
        tree == consumeHex(ZeroCommit.Tree, pre.tail)
        c1 == [ZeroCommit EXCEPT !.Tree = tree.dst]
        eol == consumeString(tree.tail, <<LF>>)
        ps == consumeParents(c1.Parents, eol.tail)
        c2 == [c1 EXCEPT !.Parents = ps.parents]
    IN  IF ~pre.ok THEN Unmarshalled(c, "parse git commit: tree: missing")
        ELSE IF tree.err # "" THEN Unmarshalled(c1, "parse git commit: tree: " \o tree.err)
        ELSE IF ~eol.ok THEN Unmarshalled(c1, "parse git commit: tree: trailing data")
        ELSE IF ps.err # "" THEN Unmarshalled(c2, ps.err)
        ELSE unmarshalUsers(c2, ps.tail)

\* ParseCommit: UnmarshalText on a new commit; the commit is returned with the error
ParseCommit(data) == UnmarshalText(ZeroCommit, data)

\* strings.Contains(s, "\n")
ContainsLF(s) == IndexByte(s, LF) # -1

\* writeGPGSignature: what is written to the buffer, and the error
Written(buf, err) == [buf |-> buf, err |-> err]

RECURSIVE writeSignatureLines(_, _)
writeSignatureLines(buf, sig) ==
    IF Len(sig) = 0 THEN Written(buf, "")
    ELSE LET lineEnd == IndexByte(sig, LF)
         IN  IF lineEnd = -1 THEN Written(buf, "write gpg signature: data has unterminated line")
             ELSE writeSignatureLines(buf \o <<SP>> \o SliceTo(sig, lineEnd + 1), SliceFrom(sig, lineEnd + 1))

\* every line is written as it is, without a space before it.
writeGPGSignatureUnfolded(buf, sig) ==
    IF Len(sig) = 0 THEN Written(buf, "")
    ELSE IF sig[Len(sig)] # LF THEN Written(buf, "write gpg signature: data has unterminated line")
    ELSE Written(buf \o gpgSignaturePrefix \o <<SP>> \o sig, "")

writeGPGSignature(buf, sig) ==
    IF Len(sig) = 0 THEN Written(buf, "")
    ELSE writeSignatureLines(buf \o gpgSignaturePrefix, sig)

\* fmt.Fprintf(buf, "parent %x\n", par) for every parent
RECURSIVE writeParents(_, _, _)
writeParents(buf, parents, i) ==
    IF i > Len(parents) THEN buf
    ELSE writeParents(buf \o parentPrefix \o SHA1String(parents[i]) \o <<LF>>, parents, i + 1)

\* "<key> %s %d %s\n" of a user, time.Unix() and time.Format("-0700")
userLine(key, user, time) ==
    key \o user \o <<SP>> \o FormatInt(time.sec) \o <<SP>> \o FormatNumTZ(time) \o <<LF>>

\* Commit.MarshalText: the bytes returned (none with an error) and the error
Marshalled(out, err) == [out |-> out, err |-> err]

\* lines 140-152: the buffer, once author and committer were accepted
marshalFields(c) ==
    LET head == writeParents(treePrefix \o SHA1String(c.Tree) \o <<LF>>, c.Parents, 1)
                    \o userLine(authorPrefix, c.Author, c.AuthorTime)
                    \o userLine(committerPrefix, c.Committer, c.CommitTime)
        sig == writeGPGSignature(head, c.GPGSignature)
    IN  IF sig.err # "" THEN Marshalled(<<>>, "marshal git commit: " \o sig.err)
        ELSE Marshalled(sig.buf \o <<LF>> \o c.Message, "")

\* the committer is not looked at.
MarshalTextAuthorOnly(c) ==
    IF ContainsLF(c.Author) THEN Marshalled(<<>>, "marshal git commit: author contains newline")
    ELSE marshalFields(c)

MarshalText(c) ==
    IF ContainsLF(c.Author) THEN Marshalled(<<>>, "marshal git commit: author contains newline")
    ELSE IF ContainsLF(c.Committer) THEN Marshalled(<<>>, "marshal git commit: committer contains newline")
    ELSE marshalFields(c)

\* ---------------------------------------------------------------- inputs

MaxRespFrames == 2
MaxWant == 2
MaxHave == 1
MaxOtherRefs == 1
MaxPrefixes == 2
MaxCloseCalls == 2

SeqsUpTo(S, n) == UNION {[1..k -> S] : k \in 0..n}

IdX == [i \in 1..SHA1Size |-> 170]
IdY == [i \in 1..SHA1Size |-> 187]
Ids == {IdX, IdY}

HeadName == <<"H", "E", "A", "D">>
MainName == <<"r", "e", "f", "s", "/", "h", "e", "a", "d", "s", "/", "m", "a", "i", "n">>
TagName == <<"r", "e", "f", "s", "/", "t", "a", "g", "s", "/", "v", "1">>
BadName == <<"r", "e", "f", "s", "/", "h", "e", "a", "d", "s", "/", "a", ".", ".", "b">>
BadIdText == [i \in 1..HexEncodedLen(SHA1Size) |-> "z"]
symrefHeadToken == symrefCap \o <<"=">> \o HeadName \o <<":">> \o MainName
agentToken == <<"a", "g", "e", "n", "t", "=", "g", "i", "t", "/", "2">>

\* The capability texts a server may put on the first line.
CapsFull ==
    Join(<<multiAckCap, sideBandCap, sideBand64KCap, ofsDeltaCap, noProgressCap, symrefHeadToken, agentToken>>,
         <<SP>>)
CapsMultiAck64k == Join(<<multiAckCap, sideBand64KCap, agentToken>>, <<SP>>)
CapsOfsNoProgress == Join(<<ofsDeltaCap, noProgressCap, sideBandCap>>, <<SP>>)
CapsNoSideBand == Join(<<multiAckCap, ofsDeltaCap, noProgressCap>>, <<SP>>)
CapsBad == Join(<<sideBandCap, <<"=", "x">>>>, <<SP>>)
CapTexts == {<<>>, sideBandCap, sideBand64KCap, CapsFull, CapsMultiAck64k, CapsOfsNoProgress, CapsNoSideBand}

FirstLine(idText, name, capsText) == DataFrame(idText \o <<SP>> \o name \o <<NUL>> \o capsText \o <<LF>>)
OtherLine(idText, name) == DataFrame(idText \o <<SP>> \o name \o <<LF>>)

\* Advertisements whose first line carries a ref, one per capability text.
CapsAdverts ==
    {<<FirstLine(SHA1String(IdX), HeadName, c), OtherLine(SHA1String(IdX), MainName), FlushFrame>> :
        c \in CapTexts}

\* An advertisement that opens with the version line, and one without refs.
VersionedAdvert ==
    <<DataFrame(versionLine), FirstLine(SHA1String(IdX), HeadName, CapsFull),
      OtherLine(SHA1String(IdX), MainName), FlushFrame>>

NoRefsAdvert == <<FirstLine(SHA1String(ZeroSHA1), noRefsName, CapsFull), FlushFrame>>

\* Advertisements that differ in their first line.
FirstLineAdverts ==
    {VersionedAdvert,
     NoRefsAdvert,
     <<FirstLine(SHA1String(ZeroSHA1), noRefsName, CapsFull), OtherLine(SHA1String(IdX), MainName), FlushFrame>>,
     <<FirstLine(SHA1String(ZeroSHA1), noRefsName, CapsFull)>>,
     <<FirstLine(SHA1String(IdX), noRefsName, CapsFull), FlushFrame>>,
     <<FirstLine(BadIdText, noRefsName, CapsFull), FlushFrame>>,
     <<FirstLine(SHA1String(ZeroSHA1), noRefsName, CapsBad), FlushFrame>>,
     <<DataFrame(versionLine), FirstLine(SHA1String(ZeroSHA1), noRefsName, CapsMultiAck64k), FlushFrame>>,
     <<FirstLine(SHA1String(ZeroSHA1), noRefsName, CapsFull), BadFrame>>,
     <<FirstLine(SHA1String(IdX), BadName, CapsFull), FlushFrame>>,
     <<FirstLine(BadIdText, HeadName, CapsFull), FlushFrame>>,
     <<FirstLine(SHA1String(IdX), HeadName, CapsBad), FlushFrame>>,
     <<OtherLine(SHA1String(IdX), HeadName), FlushFrame>>,
     <<FlushFrame>>,
     <<BadFrame>>,
     <<>>}

\* Advertisements that differ in what follows the first line.
OtherFrames ==
    {OtherLine(SHA1String(IdX), MainName), OtherLine(SHA1String(IdY), TagName),
     OtherLine(SHA1String(IdY), BadName), OtherLine(BadIdText, TagName)}

AdvertEnds == {<<FlushFrame>>, <<BadFrame>>, <<>>}

TailAdverts ==
    {<<FirstLine(SHA1String(IdX), HeadName, CapsFull)>> \o t \o e :
        t \in SeqsUpTo(OtherFrames, MaxOtherRefs), e \in AdvertEnds}

\* An advertisement whose symref tokens name the first ref and a later one.
symrefTagToken == symrefCap \o <<"=">> \o TagName \o <<":">> \o MainName
CapsSymrefs == Join(<<sideBand64KCap, symrefHeadToken, symrefTagToken>>, <<SP>>)

SymrefAdvert ==
    <<FirstLine(SHA1String(IdX), HeadName, CapsSymrefs), OtherLine(SHA1String(IdX), MainName),
      OtherLine(SHA1String(IdX), TagName), FlushFrame>>

Adverts == CapsAdverts \cup FirstLineAdverts \cup TailAdverts \cup {SymrefAdvert}

Prefixes == {<<"r", "e", "f", "s", "/">>, <<"r", "e", "f", "s", "/", "h", "e", "a", "d", "s", "/">>, HeadName}
PrefixLists == SeqsUpTo(Prefixes, MaxPrefixes)

\* Requests: want is never empty.
Requests ==
    {[Want |-> w, Have |-> h, HaveMore |-> m, Progress |-> p] :
        w \in SeqsUpTo(Ids, MaxWant) \ {<<>>}, h \in SeqsUpTo(Ids, MaxHave),
        m \in BOOLEAN, p \in BOOLEAN}

FewRequests ==
    {[Want |-> <<IdX>>, Have |-> <<IdY>>, HaveMore |-> m, Progress |-> FALSE] : m \in BOOLEAN}

\* Frames of an upload-pack response.
AckLine(id, status) == DataFrame(ackPrefix \o SHA1String(id) \o status \o <<LF>>)

RespFrames ==
    {AckLine(IdX, <<>>),
     AckLine(IdY, <<SP>> \o continueStatus),
     AckLine(IdY, continueStatus),
     AckLine(IdY, <<" ", "r", "e", "a", "d", "y">>),
     DataFrame(ackPrefix \o <<"a", "b", "c", LF>>),
     DataFrame(ackPrefix \o BadIdText \o <<LF>>),
     DataFrame(nak \o <<LF>>),
     DataFrame(<<"1", "P", "A", "C", "K">>),
     FlushFrame,
     BadFrame}

Outcome(err, body) == [err |-> err, body |-> body]

Outcomes == {Outcome("", b) : b \in SeqsUpTo(RespFrames, MaxRespFrames)} \cup {Outcome("transport", <<>>)}

FewOutcomes ==
    {Outcome("", <<DataFrame(nak \o <<LF>>)>>),
     Outcome("", <<AckLine(IdX, <<>>), DataFrame(<<"1", "P", "A", "C", "K">>)>>),
     Outcome("transport", <<>>)}

\* Every response for a few requests, and every request for a few responses.
NegotiateInputs == (FewRequests \X Outcomes) \cup (Requests \X FewOutcomes)

\* Responses that fail while they are read or parsed.
FailingOutcomes == {Outcome("", <<BadFrame>>), Outcome("", <<DataFrame(ackPrefix \o <<"a", "b", "c", LF>>)>>)}

FewNegotiateInputs == FewRequests \X (FewOutcomes \cup FailingOutcomes)

\* Commits.
MaxParents == 1

UserAlice == <<"A", "l", "i", "c", "e", SP, "<", "a", "@", "e", ">">>
UserTrailingSpace == <<"B", "o", "b", SP, "<", "b", "@", "e", ">", SP>>
UserWithLF == <<"A", "l", LF, "i", "c", "e">>
Users == {UserAlice, UserTrailingSpace, <<>>, UserWithLF}

SecS6 == Int64(FALSE, <<"1", "5", "7", "8", "6", "1", "0", "2", "0", "0">>)
ZonePST == FixedZone(<<"-", "0", "8", "0", "0">>, -8 * 60 * 60)
ZoneIST == FixedZone(<<"I", "S", "T">>, 5 * 60 * 60 + 30 * 60)
ZoneWest30 == FixedZone(<<"-", "0", "0", "3", "0">>, -30 * 60)
ZoneLMT == FixedZone(<<"L", "M", "T">>, -(7 * 60 * 60 + 52 * 60 + 58))
TimeS6 == TimeIn(SecS6, ZonePST)
Times ==
    {TimeS6, TimeIn(SecS6, ZoneIST), TimeIn(Int64(TRUE, <<"5">>), ZoneWest30), TimeIn(Int64(FALSE, <<"0">>), UTC),
     TimeIn(SecS6, ZoneLMT), ZeroTime}

SigOneLine == <<"a", "b", LF>>
SigTwoLines == <<"a", "b", LF, "c", "d", LF>>
SigEmptyLine == <<"a", "b", LF, LF, SP, "c", LF>>
SigUnterminated == <<"a", "b">>
SigLastUnterminated == <<"a", "b", LF, "c", "d">>
Sigs == {<<>>, SigOneLine, SigTwoLines, SigEmptyLine, <<LF>>, SigUnterminated, SigLastUnterminated}

MessageHi == <<"h", "i", LF>>
Messages == {MessageHi, <<>>, <<SP, "x">>, <<LF, "g", "p", "g", "s", "i", "g", SP, "y", LF>>}

ParentLists == SeqsUpTo(Ids, MaxParents)

\* Every parent list, signature and message; every pair of users and of times.
Commits ==
    {Commit(IdX, ps, UserAlice, TimeS6, UserAlice, TimeS6, s, m) :
        ps \in ParentLists, s \in Sigs, m \in Messages}
    \cup {Commit(IdY, <<IdX>>, a, TimeS6, cm, TimeS6, s, MessageHi) :
            a \in Users, cm \in Users, s \in {<<>>, SigTwoLines, SigUnterminated}}
    \cup {Commit(IdY, <<IdX>>, UserAlice, ta, UserTrailingSpace, tc, SigOneLine, MessageHi) :
            ta \in Times, tc \in Times}

\* The commit a text is parsed into: a new one, or one that already has fields.
ReceivingCommits == {ZeroCommit, Commit(IdX, <<IdY>>, UserAlice, TimeS6, UserAlice, TimeS6, SigOneLine, MessageHi)}

\* Texts of the parse grammar, put together production by production.
GrammarUserLine(key, user, seconds, tz) == key \o user \o <<SP>> \o seconds \o <<SP>> \o tz \o <<LF>>

RECURSIVE GrammarParents(_)
GrammarParents(ps) ==
    IF Len(ps) = 0 THEN <<>> ELSE parentPrefix \o SHA1String(ps[1]) \o <<LF>> \o GrammarParents(Tail(ps))

GrammarCommit(tree, ps, author, aSeconds, aTz, committer, cSeconds, cTz, sigLines, message) ==
    treePrefix \o SHA1String(tree) \o <<LF>> \o GrammarParents(ps)
        \o GrammarUserLine(authorPrefix, author, aSeconds, aTz)
        \o GrammarUserLine(committerPrefix, committer, cSeconds, cTz)
        \o sigLines \o <<LF>> \o message

GrammarSeconds == {<<"1", "5", "7", "8", "6", "1", "0", "2", "0", "0">>, <<"-", "5">>, <<"+", "5">>, <<"0", "0", "7">>, <<"0">>, <<"9", "2", "2", "3", "3", "7", "2", "0", "3", "6", "8", "5", "4", "7", "7", "5", "8", "0", "8">>}
GrammarTzOffsets == {<<"-", "0", "8", "0", "0">>, <<"+", "0", "0", "0", "0">>, <<"-", "0", "0", "0", "0">>, <<"+", "0", "5", "3", "0">>, <<"+", "0", "1", "7", "5">>}
GrammarUsers == {UserAlice, UserTrailingSpace, <<>>}
GrammarSigLines == {<<>>, <<"g", "p", "g", "s", "i", "g", SP, "a", "b", LF>>, <<"g", "p", "g", "s", "i", "g", SP, "a", "b", LF, SP, "c", "d", LF, SP, LF>>}

GrammarTexts ==
    {GrammarCommit(IdX, <<>>, UserAlice, s, tz, UserAlice, <<"1", "5", "7", "8", "6", "1", "0", "2", "0", "0">>, <<"-", "0", "8", "0", "0">>, <<>>, MessageHi) :
        s \in GrammarSeconds, tz \in GrammarTzOffsets}
    \cup {GrammarCommit(IdX, ps, UserAlice, <<"1", "5", "7", "8", "6", "1", "0", "2", "0", "0">>, <<"-", "0", "8", "0", "0">>, u, s, <<"+", "0", "5", "3", "0">>, g, m) :
            ps \in ParentLists, u \in GrammarUsers, s \in {<<"1", "5", "7", "8", "6", "1", "0", "2", "0", "0">>, <<"-", "5">>}, g \in GrammarSigLines,
            m \in {MessageHi, <<>>}}

\* Texts that the grammar does not produce.
BadTexts ==
    {<<>>,
     <<"t", "r", "e", "e", SP>>,
     treePrefix \o BadIdText \o <<LF>>,
     treePrefix \o <<"a", "a", "a", "a", "a", "a", "a", "a", "a", "a", "a", "a", "a", "a", "a", "a", "a", "a", "a", "a", "a", "a", "a", "a", "a", "a", "a", "a", "a", "a", "a", "a", "a", "a", "a", "a", "a", "a", "z", "z">> \o <<LF>>,
     treePrefix \o SHA1String(IdX) \o <<SP, LF>>,
     treePrefix \o SHA1String(IdX) \o <<LF>> \o parentPrefix \o SHA1String(IdY) \o <<"x", LF>>,
     treePrefix \o SHA1String(IdX) \o <<LF>> \o <<"c", "o", "m", "m", "i", "t", "t", "e", "r", SP, "A", "l", "i", "c", "e", SP, "<", "a", "@", "e", ">", SP, "1", SP, "+", "0", "0", "0", "0", LF, LF>>,
     treePrefix \o SHA1String(IdX) \o <<LF>> \o <<"a", "u", "t", "h", "o", "r", SP, "A", "l", "i", "c", "e", SP, "1", SP, "+", "0", "0", "0", LF>>,
     treePrefix \o SHA1String(IdX) \o <<LF>> \o <<"a", "u", "t", "h", "o", "r", SP, "A", "l", "i", "c", "e", SP, "<", "a", "@", "e", ">", SP, "1", SP, "+", "0", "0", "0", "0", LF, "c", "o", "m", "m", "i", "t", "t", "e", "r", SP, "A", "l", "i", "c", "e", SP, "x", SP, "+", "0", "0", "0", "0", LF, LF>>,
     treePrefix \o SHA1String(IdX) \o <<LF>>
         \o <<"a", "u", "t", "h", "o", "r", SP, "A", "l", "i", "c", "e", SP, "<", "a", "@", "e", ">", SP, "1", SP, "+", "0", "0", "0", "0", LF, "c", "o", "m", "m", "i", "t", "t", "e", "r", SP, "A", "l", "i", "c", "e", SP, "<", "a", "@", "e", ">", SP, "1", SP, "+", "0", "0", "0", "0", LF, "g", "p", "g", "s", "i", "g", SP, "a", "b", LF, SP, "c", "d">>,
     treePrefix \o SHA1String(IdX) \o <<LF>>
         \o <<"a", "u", "t", "h", "o", "r", SP, "A", "l", "i", "c", "e", SP, "<", "a", "@", "e", ">", SP, "1", SP, "+", "0", "0", "0", "0", LF, "c", "o", "m", "m", "i", "t", "t", "e", "r", SP, "A", "l", "i", "c", "e", SP, "<", "a", "@", "e", ">", SP, "1", SP, "+", "0", "0", "0", "0", LF, "h", "i", LF>>}

Texts == GrammarTexts \cup BadTexts

\* ----------------------------------------------------------------- state

VARIABLES
    refsBody,        \* the frames of the refs response body
    refsCloseCalls,  \* Close calls made on the refs response body
    caps,            \* f.caps
    refsReader,      \* f.refsReader: set is "not nil", rd the reader
    refsCloser,      \* f.refsCloser # nil
    refs,            \* f.refs
    refsError,       \* f.refsError, "" for nil
    call,            \* the caller's last call and what it returned
    commit,          \* the Commit the caller holds
    data             \* the commit text the caller holds

vars == <<refsBody, refsCloseCalls, caps, refsReader, refsCloser, refs, refsError, call, commit, data>>

\* what the object codec works on
commitVars == <<commit, data>>

NoReader == [set |-> FALSE, rd |-> NewReader]
NoCall == [op |-> "none"]

\* newFetchV1 on a reader that the caller advanced to the first frame
newFetchV1(body) ==
    LET first == readFirstRefV1(body, ReaderNext(body, NewReader))
    IN  /\ refsBody = body
        /\ caps = first.caps
        /\ refsError = first.err
        /\ IF ~first.hasRef
           THEN /\ refsCloseCalls = 1
                /\ refs = <<>>
                /\ refsReader = NoReader
                /\ refsCloser = FALSE
           ELSE /\ refsCloseCalls = 0
                /\ refs = <<first.ref>>
                /\ refsReader = [set |-> TRUE, rd |-> first.rd]
                /\ refsCloser = TRUE
        /\ call = NoCall

\* A stream as constructed; its caller holds no commit.
NoCommitYet == commit = ZeroCommit /\ data = <<>>

InitWith(adverts) == (\E body \in adverts : newFetchV1(body)) /\ NoCommitYet

\* What a reader still gets from a body: all of it while the body is open; once
\* the body was closed, either what it had buffered or a failed read. A stream
\* without a reader reads nothing.
BodyViews ==
    IF refsCloseCalls = 0 \/ ~refsReader.set THEN {refsBody}
    ELSE {refsBody, SubSeq(refsBody, 1, refsReader.rd.pos) \o <<BadFrame>>}

\* the error found while draining is returned by one call and then dropped.
listRefsErrorOnce(refPrefixes, view) ==
    /\ call = NoCall
    /\ IF refsReader.set
       THEN LET others == readOtherRefsV1(refs, caps, view, refsReader.rd)
            IN  /\ refs' = others.refs
                /\ refsError' = others.err
                /\ refsCloseCalls' = refsCloseCalls + 1
                /\ refsReader' = [set |-> FALSE, rd |-> others.rd]
                /\ refsCloser' = FALSE
       ELSE /\ refsError' = ""
            /\ UNCHANGED <<refs, refsCloseCalls, refsReader, refsCloser>>
    /\ call' = [op |-> "listRefs", prefixes |-> refPrefixes,
                refs |-> filterRefs(refs', refPrefixes),
                err |-> IF refsReader.set THEN refsError' ELSE refsError]
    /\ UNCHANGED <<refsBody, caps>>
    /\ UNCHANGED commitVars

\* fetchV1.listRefs
listRefs(refPrefixes, view) ==
    /\ call = NoCall
    /\ IF refsReader.set
       THEN LET others == readOtherRefsV1(refs, caps, view, refsReader.rd)
            IN  /\ refs' = others.refs
                /\ refsError' = others.err
                /\ refsCloseCalls' = refsCloseCalls + 1
                /\ refsReader' = [set |-> FALSE, rd |-> others.rd]
                /\ refsCloser' = FALSE
       ELSE UNCHANGED <<refs, refsError, refsCloseCalls, refsReader, refsCloser>>
    /\ call' = [op |-> "listRefs", prefixes |-> refPrefixes,
                refs |-> filterRefs(refs', refPrefixes), err |-> refsError']
    /\ UNCHANGED <<refsBody, caps>>
    /\ UNCHANGED commitVars

\* fetchV1.Close
Close ==
    /\ call = NoCall
    /\ ~refsCloser \/ refsCloseCalls < MaxCloseCalls
    /\ refsCloseCalls' = IF refsCloser THEN refsCloseCalls + 1 ELSE refsCloseCalls
    /\ call' = [op |-> "Close"]
    /\ UNCHANGED <<refsBody, caps, refsReader, refsCloser, refs, refsError>>
    /\ UNCHANGED commitVars

\* a negotiation that fails closes the refs body.
NegotiateClosesRefsOnError(req, out) ==
    /\ call = NoCall
    /\ call' = [op |-> "negotiate", req |-> req, out |-> out, res |-> negotiate(caps, req, out)]
    /\ refsCloseCalls' = IF negotiate(caps, req, out).err # "" /\ refsCloser /\ refsCloseCalls < MaxCloseCalls
                         THEN refsCloseCalls + 1 ELSE refsCloseCalls
    /\ UNCHANGED <<refsBody, caps, refsReader, refsCloser, refs, refsError>>
    /\ UNCHANGED commitVars

\* fetchV1.negotiate, with the transport's answer
Negotiate(req, out) ==
    /\ call = NoCall
    /\ call' = [op |-> "negotiate", req |-> req, out |-> out, res |-> negotiate(caps, req, out)]
    /\ UNCHANGED <<refsBody, refsCloseCalls, caps, refsReader, refsCloser, refs, refsError>>
    /\ UNCHANGED commitVars

\* The caller is done with what the call returned.
Return ==
    /\ call # NoCall
    /\ call' = NoCall
    /\ UNCHANGED <<refsBody, refsCloseCalls, caps, refsReader, refsCloser, refs, refsError>>
    /\ UNCHANGED commitVars

ListRefsStep == \E p \in PrefixLists : \E view \in BodyViews : listRefs(p, view)

NegotiateStep == \E in \in FewNegotiateInputs : Negotiate(in[1], in[2])

NegotiateAnyStep == \E in \in NegotiateInputs : Negotiate(in[1], in[2])

\* The stream with every advertisement and a few negotiations.
Init == InitWith(Adverts)

Next == ListRefsStep \/ Close \/ NegotiateStep \/ Return

Spec == Init /\ [][Next]_vars

\* Every negotiation on the stream as constructed, for the advertisements that differ
\* in capabilities: negotiate reads f.caps alone, which only newFetchV1 sets.
NegotiateInit == InitWith(CapsAdverts \cup {VersionedAdvert, NoRefsAdvert})

NegotiateNext == NegotiateAnyStep \/ Return

NegotiateSpec == NegotiateInit /\ [][NegotiateNext]_vars

\* The object codec. A caller holds a Commit and a commit text; no stream is in
\* play, so the stream variables keep what a stream without frames has.
streamVars == <<refsBody, refsCloseCalls, caps, refsReader, refsCloser, refs, refsError>>

\* The text a parse is given: the one the caller holds, or what MarshalText just returned.
TextsAtHand ==
    {data} \cup (IF call.op = "MarshalText" /\ call.err = "" THEN {call.out} ELSE {})

\* Commit.MarshalText on the caller's commit
MarshalTextStep ==
    /\ LET m == MarshalText(commit)
       IN  call' = [op |-> "MarshalText", out |-> m.out, err |-> m.err]
    /\ UNCHANGED commitVars
    /\ UNCHANGED streamVars

\* ParseCommit: the new commit is handed back with the error
ParseCommitStep ==
    /\ \E text \in TextsAtHand :
          LET p == ParseCommit(text)
          IN  call' = [op |-> "ParseCommit", data |-> text, c |-> p.c, err |-> p.err]
    /\ UNCHANGED commitVars
    /\ UNCHANGED streamVars

\* Commit.UnmarshalText on the caller's commit
UnmarshalTextStep ==
    /\ \E text \in TextsAtHand :
          LET u == UnmarshalText(commit, text)
          IN  /\ commit' = u.c
              /\ call' = [op |-> "UnmarshalText", data |-> text, before |-> commit, err |-> u.err]
    /\ UNCHANGED data
    /\ UNCHANGED streamVars

CommitInit ==
    /\ newFetchV1(<<>>)
    /\ \/ commit \in Commits /\ data = <<>>
       \/ commit \in ReceivingCommits /\ data \in Texts

CommitNext == MarshalTextStep \/ ParseCommitStep \/ UnmarshalTextStep

CommitSpec == CommitInit /\ [][CommitNext]_vars

\* ---------------------------------------------------------------- claims

Negotiated == call.op = "negotiate"
Succeeded == Negotiated /\ call.res.err = ""
\* uploadPack was called and returned a body
GotBody == Negotiated /\ call.res.uploadCalls = 1 /\ call.out.err = ""
\* negotiate failed after uploadPack had returned a body
FailedAfterUpload == GotBody /\ call.res.err # ""

\* The frames of the response body that ack parsing read.
FramesRead ==
    1..(IF call.res.respPos <= Len(call.out.body) THEN call.res.respPos ELSE Len(call.out.body))

FrameText(fr) == trimLF(fr.data)

\* "ACK " and a 40-hex id, whatever follows
IsAckLine(fr) ==
    /\ fr.type = "Data"
    /\ HasPrefix(FrameText(fr), ackPrefix)
    /\ Len(FrameText(fr)) >= Len(ackPrefix) + HexEncodedLen(SHA1Size)
    /\ \A i \in 1..HexEncodedLen(SHA1Size) : IsHexDigit(FrameText(fr)[Len(ackPrefix) + i])

\* the text of an ACK line after its id
AckSuffix(fr) == SliceFrom(FrameText(fr), Len(ackPrefix) + HexEncodedLen(SHA1Size))

IsStatuslessAck(fr) == IsAckLine(fr) /\ AckSuffix(fr) = <<>>
IsContinueAck(fr) == IsAckLine(fr) /\ AckSuffix(fr) = <<SP>> \o continueStatus
IsNak(fr) == fr.type = "Data" /\ FrameText(fr) = nak

StatuslessAckRead == \E i \in FramesRead : IsStatuslessAck(call.out.body[i])

\* C1: a successful negotiate returns a packfile iff a statusless ACK line was read
\* or the request had HaveMore = false.
C1_PackfileIffBaseOrDone ==
    Succeeded => (call.res.packfile <=> (StatuslessAckRead \/ ~call.req.HaveMore))

C1_Witness ==
    /\ Succeeded
    /\ call.req.HaveMore
    /\ StatuslessAckRead
    /\ call.res.packfile

\* C2: when negotiate fails after uploadPack returned a body, that body was closed
\* exactly once.
C2_BodyClosedOnceOnError ==
    FailedAfterUpload => call.res.respCloses = 1

\* C3: a successful negotiate without a packfile has closed the body; with a packfile
\* it has not, and the packfile reader holds the body as its closer.
C3_BodyOwnership ==
    Succeeded =>
        IF call.res.packfile
        THEN call.res.respCloses = 0 /\ call.res.packCloser = "resp"
        ELSE call.res.respCloses >= 1

\* C4: "ACK <id> continue" records the id and parsing goes on; so want=[X], have=[Y],
\* HaveMore answered by "ACK Y continue", "NAK" succeeds with acks = {Y} and no packfile.
C4_ContinueAckAccepted ==
    GotBody =>
        /\ \A i \in FramesRead :
               (IsContinueAck(call.out.body[i]) /\ i < Len(call.out.body)) => call.res.respPos > i
        /\ (/\ call.req.Want = <<IdX>>
            /\ call.req.Have = <<IdY>>
            /\ call.req.HaveMore
            /\ call.out.body = <<AckLine(IdY, <<SP>> \o continueStatus), DataFrame(nak \o <<LF>>)>>)
           => (Succeeded /\ call.res.acks = {IdY} /\ ~call.res.packfile)

\* The first frame that ends ack parsing: the first NAK or statusless ACK.
EndingFrames == {i \in 1..Len(call.out.body) : IsNak(call.out.body[i]) \/ IsStatuslessAck(call.out.body[i])}

FirstEndingFrame == CHOOSE i \in EndingFrames : \A j \in EndingFrames : i <= j

HasAckFor(fr, id) == fr.type = "Data" /\ HasPrefix(FrameText(fr), ackPrefix \o SHA1String(id))

\* C5: on success acks is exactly the set of ids on the ACK lines read up to and
\* including the line that ended ack parsing, and no later frame is read.
C5_AcksAreTheAckLinesRead ==
    Succeeded =>
        /\ \A id \in call.res.acks : \E i \in FramesRead : HasAckFor(call.out.body[i], id)
        /\ \A i \in FramesRead :
               IsAckLine(call.out.body[i]) => \E id \in call.res.acks : HasAckFor(call.out.body[i], id)
        /\ FramesRead = 1..(IF EndingFrames = {} THEN Len(call.out.body) ELSE FirstEndingFrame)

C5_Witness ==
    /\ Succeeded
    /\ call.res.acks = {IdX, IdY}
    /\ IsStatuslessAck(call.out.body[call.res.respPos])

\* A line that ack parsing must reject: neither NAK nor an ACK line, or an ACK line
\* whose text after the id is neither empty nor " continue".
MustBeRejected(fr) ==
    /\ fr.type = "Data"
    /\ \/ ~IsNak(fr) /\ ~HasPrefix(FrameText(fr), ackPrefix)
       \/ IsAckLine(fr) /\ AckSuffix(fr) \notin {<<>>, <<SP>> \o continueStatus}

\* C6: such a line makes negotiate return an error and no response.
C6_BadLinesRejected ==
    (GotBody /\ \E i \in FramesRead : MustBeRejected(call.out.body[i])) =>
        /\ call.res.err # ""
        /\ ~call.res.hasResponse
        /\ call.res.acks = {}
        /\ ~call.res.packfile

\* The capability keys on the first line of the advertisement, read off the wire.
AdvertFirstFrame ==
    IF Len(refsBody) = 0 THEN FlushFrame
    ELSE IF refsBody[1].type = "Data" /\ FrameText(refsBody[1]) = versionLine
         THEN (IF Len(refsBody) >= 2 THEN refsBody[2] ELSE FlushFrame)
    ELSE refsBody[1]

AdvertisedKeys ==
    LET text == FrameText(AdvertFirstFrame)
        toks == Fields(SliceFrom(text, IndexByte(text, NUL) + 1))
    IN  IF AdvertFirstFrame.type = "Data" /\ IndexByte(text, NUL) # -1
        THEN {CapKey(toks[i]) : i \in 1..Len(toks)}
        ELSE {}

\* C7: without side-band-64k and side-band on offer negotiate fails before any
\* uploadPack call; and it never calls uploadPack more than once.
C7_NoSideBandNoUpload ==
    Negotiated =>
        /\ (sideBand64KCap \notin AdvertisedKeys /\ sideBandCap \notin AdvertisedKeys) =>
               (call.res.err # "" /\ ~call.res.hasResponse /\ call.res.uploadCalls = 0
                /\ call.res.commandBuf = <<>>)
        /\ call.res.uploadCalls \in {0, 1}

C7_Witness ==
    /\ Negotiated
    /\ multiAckCap \in AdvertisedKeys
    /\ sideBand64KCap \notin AdvertisedKeys /\ sideBandCap \notin AdvertisedKeys
    /\ call.res.err # ""
    /\ call.res.uploadCalls = 0

\* The capabilities on the first want line of the posted request, read off the wire.
SentCaps ==
    LET toks == Fields(call.res.commandBuf[1].data)
    IN  {toks[i] : i \in 3..Len(toks)}

\* C8: the capabilities sent hold exactly one side-band variant (side-band-64k when
\* offered), no-progress only without a progress sink, and nothing the server did
\* not advertise.
C8_SentCapabilities ==
    (Negotiated /\ call.res.uploadCalls = 1) =>
        /\ Cardinality(SentCaps \cap {sideBand64KCap, sideBandCap}) = 1
        /\ sideBand64KCap \in AdvertisedKeys => sideBand64KCap \in SentCaps
        /\ multiAckCap \in SentCaps => multiAckCap \in AdvertisedKeys
        /\ ofsDeltaCap \in SentCaps => ofsDeltaCap \in AdvertisedKeys
        /\ noProgressCap \in SentCaps => (~call.req.Progress /\ noProgressCap \in AdvertisedKeys)
        /\ SentCaps \subseteq AdvertisedKeys

C8_Witness ==
    /\ Negotiated /\ call.res.uploadCalls = 1
    /\ {sideBand64KCap, sideBandCap, noProgressCap} \subseteq AdvertisedKeys
    /\ call.req.Progress
    /\ SentCaps = {multiAckCap, ofsDeltaCap, sideBand64KCap}

C10_RefsBodyClosedAtMostOnce == refsCloseCalls <= 1

\* Close was called on a stream whose advertisement nobody drained: construction
\* leaves the body open when it leaves the reader set, and listRefs clears the reader.
ClosedUndrained == refsReader.set /\ refsCloseCalls > 0

\* C11: after Close on an undrained stream, a later listRefs or negotiate fails,
\* listRefs without reading the closed refs body and negotiate without calling
\* the transport.
C11_UseAfterCloseFails ==
    [][ClosedUndrained =>
        /\ call'.op = "listRefs" =>
              /\ call'.err # ""
              /\ refsReader' = refsReader
        /\ call'.op = "negotiate" =>
              /\ call'.res.err # ""
              /\ call'.res.uploadCalls = 0]_vars

ListedRefs == call.op = "listRefs"

\* the refs a call returned, as a set
Returned == {call.refs[i] : i \in 1..Len(call.refs)}

\* the advertised refs the stream holds
Advertised == {refs[i] : i \in 1..Len(refs)}

MatchesAny(r, prefixes) == \E j \in 1..Len(prefixes) : HasPrefix(r.Name, prefixes[j])

\* C12: listRefs with a non-empty prefix list returns an advertised ref iff its name
\* starts with one of the prefixes; with an empty list it returns every advertised ref.
C12_ReturnsTheMatchingRefs ==
    ListedRefs =>
        /\ Returned \subseteq Advertised
        /\ \A r \in Advertised :
              r \in Returned <=> (Len(call.prefixes) = 0 \/ MatchesAny(r, call.prefixes))

\* a ref matched by the second prefix alone is returned, another ref is left out
C12_Witness ==
    /\ ListedRefs
    /\ Len(call.prefixes) = 2
    /\ \E r \in Returned : ~HasPrefix(r.Name, call.prefixes[1])
    /\ Advertised \ Returned # {}

\* C13: the list listRefs returns is the advertised list with the non-matching refs
\* removed: server order is kept and each advertised ref appears exactly once, also
\* when several of the prefixes match its name.
C13_ServerOrderEachRefOnce ==
    ListedRefs =>
        call.refs = SelectSeq(refs, LAMBDA r : Len(call.prefixes) = 0 \/ MatchesAny(r, call.prefixes))

SetOf(rs) == {rs[i] : i \in 1..Len(rs)}

\* C14: for non-empty prefix lists P and Q, the set of refs listRefs returns for
\* P and Q together is the union of the sets it returns for P and for Q over the
\* same advertisement.
C14_UnionOfPrefixLists ==
    ListedRefs =>
        \A k \in 1..(Len(call.prefixes) - 1) :
            LET P == SubSeq(call.prefixes, 1, k)
                Q == SubSeq(call.prefixes, k + 1, Len(call.prefixes))
            IN  Returned = SetOf(filterRefs(refs, P)) \cup SetOf(filterRefs(refs, Q))

\* each of the two lists contributes a ref the other does not
C14_Witness ==
    /\ ListedRefs
    /\ Len(call.prefixes) = 2
    /\ \E r \in Returned : ~HasPrefix(r.Name, call.prefixes[1])
    /\ \E r \in Returned : ~HasPrefix(r.Name, call.prefixes[2])

\* where the first advertisement line sits in the refs body
FirstLineIndex ==
    IF Len(refsBody) > 0 /\ refsBody[1].type = "Data" /\ FrameText(refsBody[1]) = versionLine
    THEN 2 ELSE 1

FirstLineText == FrameText(AdvertFirstFrame)
FirstLineHead == SliceTo(FirstLineText, IndexByte(FirstLineText, NUL))
FirstLineIdText == SliceTo(FirstLineHead, IndexByte(FirstLineHead, SP))
FirstLineName == SliceFrom(FirstLineHead, IndexByte(FirstLineHead, SP) + 1)
FirstLineTokens == Fields(SliceFrom(FirstLineText, IndexByte(FirstLineText, NUL) + 1))

\* the first line is "<id> capabilities^{}" NUL and capability tokens
NamesNoRefs ==
    /\ AdvertFirstFrame.type = "Data"
    /\ IndexByte(FirstLineText, NUL) # -1
    /\ IndexByte(FirstLineHead, SP) # -1
    /\ FirstLineName = noRefsName
    /\ \A i \in 1..Len(FirstLineTokens) : CapErr(FirstLineTokens[i]) = ""

ZeroIdText == [i \in 1..HexEncodedLen(SHA1Size) |-> "0"]

FlushFollowsFirstLine ==
    /\ Len(refsBody) > FirstLineIndex
    /\ refsBody[FirstLineIndex + 1].type = "Flush"

\* C15: a first line naming capabilities^{} (its capability tokens well-formed)
\* makes the advertisement fail when its id is not all-zero or the next frame is
\* not a flush; with the all-zero id and a flush next, the capabilities are kept,
\* the refs body is closed at construction and every listRefs returns no refs and
\* no error.
C15_NoRefsAdvertisement ==
    NamesNoRefs =>
        IF FirstLineIdText = ZeroIdText /\ FlushFollowsFirstLine
        THEN /\ DOMAIN caps.kv = AdvertisedKeys \ {symrefCap}
             /\ \A i \in 1..Len(FirstLineTokens) :
                    CapKey(FirstLineTokens[i]) # symrefCap =>
                        caps.kv[CapKey(FirstLineTokens[i])] = CapValue(FirstLineTokens[i])
             /\ refsCloseCalls = 1
             /\ ~refsReader.set
             /\ refsError = ""
             /\ ListedRefs => call.refs = <<>> /\ call.err = ""
        ELSE /\ refsError # ""
             /\ ListedRefs => call.err # ""

\* a listRefs call on a stream built from a well-formed no-refs advertisement
C15_Witness ==
    /\ NamesNoRefs
    /\ FirstLineIdText = ZeroIdText
    /\ FlushFollowsFirstLine
    /\ AdvertisedKeys # {}
    /\ ListedRefs
    /\ Len(call.prefixes) > 0

\* the first line's symref tokens "symref=<name>:<to>" for a name
SymrefTokensFor(name) ==
    LET tokens == FirstLineTokens
    IN  {i \in 1..Len(tokens) :
            LET v == CapValue(tokens[i])
            IN  /\ CapKey(tokens[i]) = symrefCap
                /\ IndexByte(v, ":") # -1
                /\ SliceTo(v, IndexByte(v, ":")) = name}

\* the target the first line gives a name, empty when no token names it
AdvertisedTarget(name) ==
    LET naming == SymrefTokensFor(name)
    IN  IF naming = {} THEN <<>>
        ELSE LET i == CHOOSE k \in naming : \A l \in naming : l <= k
                 v == CapValue(FirstLineTokens[i])
             IN  SliceFrom(v, IndexByte(v, ":") + 1)

Emitted == call.op = "MarshalText"
Parsed == call.op = "ParseCommit"

\* the caller's commit can be emitted: users without LF, a signature of
\* LF-terminated lines, zone offsets of whole minutes
WellFormed(c) ==
    /\ ~ContainsLF(c.Author)
    /\ ~ContainsLF(c.Committer)
    /\ Len(c.GPGSignature) = 0 \/ c.GPGSignature[Len(c.GPGSignature)] = LF
    /\ c.AuthorTime.loc.offset % 60 = 0
    /\ c.CommitTime.loc.offset % 60 = 0

\* the same instant with the same zone offset
SameTime(s, t) == s.sec = t.sec /\ s.loc.offset = t.loc.offset

\* equal in every field
SameCommit(a, b) ==
    /\ a.Tree = b.Tree
    /\ a.Parents = b.Parents
    /\ a.Author = b.Author
    /\ SameTime(a.AuthorTime, b.AuthorTime)
    /\ a.Committer = b.Committer
    /\ SameTime(a.CommitTime, b.CommitTime)
    /\ a.GPGSignature = b.GPGSignature
    /\ a.Message = b.Message

\* the parse was given what MarshalText returns for the caller's commit
ParsedItsText == Parsed /\ MarshalText(commit).err = "" /\ call.data = MarshalText(commit).out

HoldsParsedText == ParseCommit(data).err = "" /\ commit = ParseCommit(data).c

\* C18: every text of the parse grammar parses without error, and MarshalText of
\* the parsed commit returns the text byte for byte, its timestamp and offset
\* strings included.
C18_EmitOfParse ==
    data \in GrammarTexts =>
        /\ (call.op \in {"ParseCommit", "UnmarshalText"} /\ call.data = data) => call.err = ""
        /\ (Emitted /\ HoldsParsedText) => call.err = "" /\ call.out = data

\* MarshalText refused the commit because of a user
FailedForUser ==
    call.err \in {"marshal git commit: author contains newline",
                  "marshal git commit: committer contains newline"}

\* C19: MarshalText fails and returns no bytes whenever the author or the
\* committer contains LF, whatever the other fields are, and never fails for
\* that reason when neither does.
C19_UsersWithoutLF ==
    Emitted =>
        IF ContainsLF(commit.Author) \/ ContainsLF(commit.Committer)
        THEN FailedForUser /\ call.out = <<>>
        ELSE ~FailedForUser

\* the committer alone has an LF, and the commit has a signature
C19_Witness ==
    /\ Emitted
    /\ ~ContainsLF(commit.Author)
    /\ ContainsLF(commit.Committer)
    /\ commit.GPGSignature = SigTwoLines
    /\ call.err # ""

\* the signature lines: how many start at or before byte i of the signature
SigLinesUpTo(sig, i) == 1 + Cardinality({j \in 1..(i - 1) : sig[j] = LF})

SigLineStarts(sig) == {i \in 1..Len(sig) : i = 1 \/ sig[i - 1] = LF}

\* where the folded signature starts in the emitted text: it ends right before
\* the blank line and the message, and holds the key, the signature and one
\* added byte per line
FoldedStart(out, c) ==
    Len(out) - Len(c.Message) - 1
        - (Len(gpgSignaturePrefix) + Len(c.GPGSignature) + Cardinality(SigLineStarts(c.GPGSignature))) + 1

\* where byte i of the signature sits in the emitted text
FoldedPos(out, c, i) ==
    FoldedStart(out, c) + Len(gpgSignaturePrefix) + SigLinesUpTo(c.GPGSignature, i) + i - 1

\* C20: MarshalText of a commit with a non-empty signature (and users without
\* LF) fails and returns no bytes when the signature does not end in LF;
\* otherwise it emits "gpgsig", then every signature line with exactly one
\* space added before it and every signature byte unchanged.
C20_SignatureFolding ==
    (Emitted /\ Len(commit.GPGSignature) > 0 /\ ~ContainsLF(commit.Author) /\ ~ContainsLF(commit.Committer)) =>
        LET sig == commit.GPGSignature
            start == FoldedStart(call.out, commit)
        IN  IF sig[Len(sig)] # LF
            THEN call.err # "" /\ call.out = <<>>
            ELSE /\ call.err = ""
                 /\ start > 1
                 /\ call.out[start - 1] = LF
                 /\ SubSeq(call.out, start, start + Len(gpgSignaturePrefix) - 1) = gpgSignaturePrefix
                 /\ \A i \in 1..Len(sig) : call.out[FoldedPos(call.out, commit, i)] = sig[i]
                 /\ \A i \in SigLineStarts(sig) : call.out[FoldedPos(call.out, commit, i) - 1] = SP
                 /\ SliceFrom(call.out, FoldedPos(call.out, commit, Len(sig))) = <<LF>> \o commit.Message

\* a signature with an empty line and a line that starts with a space was folded
C20_Witness ==
    /\ Emitted
    /\ commit.GPGSignature = SigEmptyLine
    /\ call.err = ""
    /\ Len(commit.Message) > 0

\* the first advertisement line carries a ref
FirstLineIsRef ==
    /\ AdvertFirstFrame.type = "Data"
    /\ LET text == FirstLineText
           head == SliceTo(text, IndexByte(text, NUL))
           sp == IndexByte(head, SP)
           name == SliceFrom(head, sp + 1)
           tokens == FirstLineTokens
       IN  /\ IndexByte(text, NUL) # -1
           /\ sp # -1
           /\ name # noRefsName
           /\ RefIsValid(name)
           /\ SHA1TextOk(SliceTo(head, sp))
           /\ \A i \in 1..Len(tokens) : CapErr(tokens[i]) = ""

\* a frame that is a well-formed later ref line
IsOtherRefLine(fr) ==
    /\ fr.type = "Data"
    /\ LET text == FrameText(fr)
           sp == IndexByte(text, SP)
       IN  /\ sp # -1
           /\ RefIsValid(SliceFrom(text, sp + 1))
           /\ SHA1TextOk(SliceTo(text, sp))

\* the frame at which draining stops: the first one after the first line that is
\* not a ref line (the flush of a well-formed advertisement), or the end of the body
DrainStop ==
    LET stops == {i \in (FirstLineIndex + 1)..Len(refsBody) : ~IsOtherRefLine(refsBody[i])}
    IN  IF stops = {} THEN Len(refsBody) + 1 ELSE MinOf(stops)

\* a listRefs call is made in this step
ListRefsCalled == call = NoCall /\ call'.op = "listRefs"

\* the states of the lazy reader
Advertising == refsReader.set
Drained == ~refsReader.set

\* C21: a stream built on an advertisement with a first ref has read the frames up
\* to the first ref only and left the body open (advertising); the first listRefs
\* reads the remaining frames up to the flush, closes the body and leaves the
\* stream drained; every later listRefs reads nothing.
C21_LazyTwoStateReader ==
    /\ [](Advertising /\ FirstLineIsRef =>
            /\ refsReader.rd.pos = FirstLineIndex
            /\ Len(refs) = 1)
    /\ [][(ListRefsCalled /\ FirstLineIsRef) =>
            IF Advertising
            THEN /\ Drained'
                 /\ refsCloseCalls' = refsCloseCalls + 1
                 /\ refsCloseCalls = 0 => refsReader'.rd.pos = DrainStop
            ELSE UNCHANGED <<refsReader, refsCloseCalls, refs, refsError>>]_vars

\* the two states are where the claim puts them: advertising with the body open
\* after construction, drained once a listRefs call has returned
C21_Witness ==
    /\ FirstLineIsRef
    /\ Drained
    /\ ListedRefs
    /\ refsCloseCalls = 1
    /\ refsReader.rd.pos = DrainStop
    /\ DrainStop > FirstLineIndex + 2
    /\ refsBody[DrainStop].type = "Flush"
    /\ Len(refs) = 3

\* the first line has an id and a name, and the id is malformed or the name invalid
FirstLineIsBadRef ==
    /\ AdvertFirstFrame.type = "Data"
    /\ LET text == FirstLineText
           head == SliceTo(text, IndexByte(text, NUL))
           sp == IndexByte(head, SP)
           name == SliceFrom(head, sp + 1)
       IN  /\ IndexByte(text, NUL) # -1
           /\ sp # -1
           /\ \/ name # noRefsName /\ ~RefIsValid(name)
              \/ ~SHA1TextOk(SliceTo(head, sp))

\* the frames between the first line and the flush that ends the advertisement
LaterLines ==
    {i \in (FirstLineIndex + 1)..Len(refsBody) :
        \A j \in (FirstLineIndex + 1)..i : refsBody[j].type # "Flush"}

\* a later line with an id and a name, the id malformed or the name invalid
IsBadRefLine(fr) ==
    /\ fr.type = "Data"
    /\ IndexByte(FrameText(fr), SP) # -1
    /\ ~IsOtherRefLine(fr)

BadLaterLines == {i \in LaterLines : IsBadRefLine(refsBody[i])}

\* the names that the invalid lines carry
BadLineNames ==
    (IF FirstLineIsBadRef THEN {FirstLineName} ELSE {})
        \cup {SliceFrom(FrameText(refsBody[i]), IndexByte(FrameText(refsBody[i]), SP) + 1) : i \in BadLaterLines}

\* C22: when a ref line of the advertisement, the first or a later one, has an
\* invalid name or a malformed id, every listRefs call returns an error, and no
\* returned ref comes from an invalid line.
C22_InvalidLineFailsListRefs ==
    LET invalidLine == FirstLineIsBadRef \/ BadLaterLines # {}
    IN  /\ Drained /\ invalidLine => refsError # ""
        /\ ListedRefs /\ invalidLine =>
              /\ call.err # ""
              /\ \A i \in 1..Len(call.refs) :
                    /\ RefIsValid(call.refs[i].Name)
                    /\ call.refs[i].Name \notin BadLineNames

\* a later line with an invalid name, after a first line that gave a ref
C22_Witness ==
    /\ FirstLineIsRef
    /\ \E i \in BadLaterLines : SHA1TextOk(SliceTo(FrameText(refsBody[i]), IndexByte(FrameText(refsBody[i]), SP)))
    /\ refsCloseCalls = 1
    /\ ListedRefs
    /\ call.err # ""

UnmarshalCalled == call.op = "UnmarshalText"

\* C23: a failed parse shows the caller no partly filled commit: ParseCommit hands
\* back no commit with fields set next to the error, and a failed UnmarshalText
\* leaves the caller's commit as it was before the call.
C23_NoPartialCommit ==
    /\ (Parsed /\ call.err # "") => call.c = ZeroCommit
    /\ (UnmarshalCalled /\ call.err # "") => commit = call.before

\* what a listRefs call with these prefixes returns on a drained stream
DrainedResult(prefixes) == [refs |-> filterRefs(refs, prefixes), err |-> refsError]

\* C24: once a listRefs call has returned, a later listRefs call with the same
\* prefixes returns the same refs in the same order and the same error, whatever
\* was called in between: each call on a drained stream returns what the stream
\* holds for its prefixes, and no call changes that for any prefix list.
C24_ListRefsRepeats ==
    /\ [](ListedRefs => Drained /\ [refs |-> call.refs, err |-> call.err] = DrainedResult(call.prefixes))
    /\ [][Drained =>
            /\ Drained'
            /\ \A p \in PrefixLists : DrainedResult(p)' = DrainedResult(p)]_vars

\* a call returned refs together with the error found while draining
C24_Witness ==
    /\ ListedRefs
    /\ FirstLineIsRef
    /\ refsCloseCalls = 1
    /\ Len(call.prefixes) > 0
    /\ Len(call.refs) > 0
    /\ call.err # ""

\* a negotiate call is made in this step
NegotiateCalled == call = NoCall /\ call'.op = "negotiate"

\* what a listRefs call with these prefixes returns from a stream in this
\* condition, for each of the views of its body
ListRefsOutcomesOf(rdr, rs, capsList, err, views, prefixes) ==
    {LET o == IF rdr.set THEN readOtherRefsV1(rs, capsList, view, rdr.rd)
              ELSE [refs |-> rs, err |-> err]
     IN  [refs |-> filterRefs(o.refs, prefixes), err |-> o.err] : view \in views}

\* what a listRefs call with these prefixes can return in this state
ListRefsOutcomes(prefixes) ==
    ListRefsOutcomesOf(refsReader, refs, caps, refsError, BodyViews, prefixes)

\* C25: a negotiate call, whether it succeeds or fails, leaves the refs body
\* unread and unclosed and the parsed refs, the refs error and the server
\* capabilities as they were, so listRefs returns after it what it would have
\* returned before it.
C25_NegotiateLeavesAdvertisement ==
    [][NegotiateCalled =>
        /\ UNCHANGED <<refsBody, refsCloseCalls, caps, refsReader, refsCloser, refs, refsError>>
        /\ \A p \in PrefixLists :
            ListRefsOutcomesOf(refsReader', refs', caps', refsError', BodyViews', p)
                = ListRefsOutcomes(p)]_vars

\* a negotiation failed after the upload on a stream that is still advertising
C25_Witness ==
    /\ Negotiated
    /\ Advertising
    /\ refsCloseCalls = 0
    /\ call.res.uploadCalls = 1
    /\ call.res.err # ""

====
